---------------------------- MODULE Spec2Model ----------------------------
(***************************************************************************)
(* Open-addressing hash table with double hashing (app/hash_table.py,      *)
(* class HashTable).  Keys are strings, modelled as sequences of character *)
(* codes (ord); values are opaque.  One action per public method.          *)
(***************************************************************************)
EXTENDS Integers, Sequences, FiniteSets, TLC

VARIABLES size, table, count, last, walk

vars == <<size, table, count, last, walk>>

-----------------------------------------------------------------------------
(* Bounds of the model *)

\* table sizes explored: HashTable(size) for size in 1..MaxSize
MaxSize == 6

Sizes == 1..MaxSize

\* segment numbers asked for: MaxOutside below 0 and MaxOutside above size - 1
MaxOutside == 1

\* steps of the probe loop explored: 1..MaxStep
MaxStep == 7

Steps == 1..MaxStep

Segments(n) == (0 - MaxOutside)..(n - 1 + MaxOutside)

\* "000A03", "123A45", "000A01": match KEY_PATTERN
KeyA == <<48, 48, 48, 65, 48, 51>>
KeyB == <<49, 50, 51, 65, 52, 53>>
KeyC == <<48, 48, 48, 65, 48, 49>>
\* "000a03" (lowercase letter): does not match
KeyLower == <<48, 48, 48, 97, 48, 51>>

Keys == {KeyA, KeyB, KeyC, KeyLower}

\* Python None, as a value and as the "not found" result of get
NoneVal == "None"

Values == {"v1", "v2"}

-----------------------------------------------------------------------------
(* Slots *)

\* self.table[i] is None
None == [tag |-> "None", key |-> <<>>, val |-> NoneVal]

\* a deletion that empties the slot instead of marking it
EmptiedOnDelete == [tag |-> "None", key |-> <<>>, val |-> NoneVal]

\* self.table[i] is self.deleted_marker
deleted_marker == [tag |-> "deleted", key |-> <<>>, val |-> NoneVal]

\* ht.table[i] is [] (an empty list, as clear_table leaves it)
EmptyList == [tag |-> "list", key |-> <<>>, val |-> NoneVal]

\* self.table[i] = (key, value)
Tuple(key, value) == [tag |-> "tuple", key |-> key, val |-> value]

\* find_position's "return None"
NonePos == -1

-----------------------------------------------------------------------------
(* Key validation and hashing *)

IsDigit(c) == c \in 48..57

IsUpper(c) == c \in 65..90

\* KEY_PATTERN = ^\d{3}[A-Z]\d{2}$ ; with re.match, $ also matches just
\* before a single trailing newline (code 10)
KEY_PATTERN(key) ==
    /\ Len(key) \in {6, 7}
    /\ IsDigit(key[1]) /\ IsDigit(key[2]) /\ IsDigit(key[3])
    /\ IsUpper(key[4])
    /\ IsDigit(key[5]) /\ IsDigit(key[6])
    /\ (Len(key) = 7 => key[7] = 10)

\* a validation that accepts every key
AcceptAnyKey(key) == TRUE

validate_key(key) == KEY_PATTERN(key)

RECURSIVE PolyHash(_, _, _, _, _)
\* for char in key: hash_value = (hash_value * mult + ord(char)) % n
PolyHash(key, mult, n, i, hash_value) ==
    IF i > Len(key) THEN hash_value
    ELSE PolyHash(key, mult, n, i + 1, (hash_value * mult + key[i]) % n)

hash1(key, n) == PolyHash(key, 31, n, 1, 0)

hash2(key, n) ==
    LET raw == PolyHash(key, 37, n, 1, 0)
        nz  == IF raw = 0 THEN 1 ELSE raw
    IN  IF n % 2 = 0 /\ nz % 2 = 0 THEN nz + 1 ELSE nz

-----------------------------------------------------------------------------
(* Probing *)

\* the i-th index of the probe sequence: index = (h1 + i * h2) % self.size
\* a probe whose offset grows with the square of i
ProbeIndexQuadratic(h1, h2, n, i) == (h1 + i * i * h2) % n

ProbeIndex(h1, h2, n, i) == (h1 + i * h2) % n

RECURSIVE ProbeOverwrites(_, _, _, _, _, _, _)
\* Probe without collision resolution: an insertion scan returns the first
\* slot it looks at
ProbeOverwrites(t, n, key, for_insert, h1, h2, i) ==
    IF i >= n THEN NonePos
    ELSE LET index == ProbeIndex(h1, h2, n, i)
             item  == t[index]
         IN  IF item = None \/ for_insert
             THEN (IF for_insert THEN index ELSE NonePos)
             ELSE IF item.tag = "tuple" /\ item.key = key
             THEN index
             ELSE ProbeOverwrites(t, n, key, for_insert, h1, h2, i + 1)

RECURSIVE ProbeStopsAtDeleted(_, _, _, _, _, _, _)
\* Probe whose lookup scan treats a deleted slot like an empty one
ProbeStopsAtDeleted(t, n, key, for_insert, h1, h2, i) ==
    IF i >= n THEN NonePos
    ELSE LET index == ProbeIndex(h1, h2, n, i)
             item  == t[index]
         IN  IF item = None
             THEN (IF for_insert THEN index ELSE NonePos)
             ELSE IF item = deleted_marker
             THEN (IF for_insert
                   THEN ProbeStopsAtDeleted(t, n, key, for_insert, h1, h2, i + 1)
                   ELSE NonePos)
             ELSE IF item.tag = "tuple" /\ item.key = key
             THEN index
             ELSE ProbeStopsAtDeleted(t, n, key, for_insert, h1, h2, i + 1)

RECURSIVE Probe(_, _, _, _, _, _, _)
\* the loop "for i in range(self.size)" of find_position, from iteration i
Probe(t, n, key, for_insert, h1, h2, i) ==
    IF i >= n THEN NonePos
    ELSE LET index == ProbeIndex(h1, h2, n, i)
             item  == t[index]
         IN  IF item = None
             THEN (IF for_insert THEN index ELSE NonePos)
             ELSE IF item = deleted_marker /\ for_insert
             THEN Probe(t, n, key, for_insert, h1, h2, i + 1)
             ELSE IF item.tag = "tuple" /\ item.key = key
             THEN index
             ELSE Probe(t, n, key, for_insert, h1, h2, i + 1)

\* hash1 and hash2 of the keys and sizes explored, tabulated once
Hash1Of == [n \in Sizes |-> [key \in Keys |-> hash1(key, n)]]

Hash2Of == [n \in Sizes |-> [key \in Keys |-> hash2(key, n)]]

find_position(t, n, key, for_insert) ==
    IF ~validate_key(key) THEN NonePos
    ELSE Probe(t, n, key, for_insert, Hash1Of[n][key], Hash2Of[n][key], 0)

\* get(key): the stored value, or None
get(t, n, key) ==
    LET pos == find_position(t, n, key, FALSE)
    IN  IF pos # NonePos THEN t[pos].val ELSE NoneVal

-----------------------------------------------------------------------------
(* Collision elements of a deleted key *)

\* every position of the probe sequence, whatever deleted_pos is
DeletedPathWhole(h1, h2, n, deleted_pos, i) ==
    {ProbeIndex(h1, h2, n, j) : j \in i..(n - 1)}

RECURSIVE DeletedPath(_, _, _, _, _)
\* the positions (h1 + i*h2) % n for i = 0.. up to and including deleted_pos
DeletedPath(h1, h2, n, deleted_pos, i) ==
    IF i >= n THEN {}
    ELSE LET pos == ProbeIndex(h1, h2, n, i)
         IN  IF pos = deleted_pos THEN {pos}
             ELSE {pos} \cup DeletedPath(h1, h2, n, deleted_pos, i + 1)

\* the collision search without the comparison of the initial positions
FindCollisionsOnPathOnly(t, n, deleted_key, deleted_pos) ==
    LET h1_deleted   == Hash1Of[n][deleted_key]
        h2_deleted   == Hash2Of[n][deleted_key]
        deleted_path == DeletedPath(h1_deleted, h2_deleted, n, deleted_pos, 0)
    IN  { t[i].key : i \in
            { j \in 0..(n - 1) :
                /\ t[j].tag = "tuple"
                /\ t[j].key # deleted_key
                /\ j \in deleted_path /\ Hash1Of[n][t[j].key] \in deleted_path } }

\* _find_collision_elements, on the table after the slot was marked deleted;
\* list(set(...)) is modelled as the set
find_collision_elements(t, n, deleted_key, deleted_pos) ==
    LET h1_deleted   == Hash1Of[n][deleted_key]
        h2_deleted   == Hash2Of[n][deleted_key]
        deleted_path == DeletedPath(h1_deleted, h2_deleted, n, deleted_pos, 0)
    IN  { t[i].key : i \in
            { j \in 0..(n - 1) :
                /\ t[j].tag = "tuple"
                /\ t[j].key # deleted_key
                /\ \/ Hash1Of[n][t[j].key] = h1_deleted
                   \/ (j \in deleted_path /\ Hash1Of[n][t[j].key] \in deleted_path) } }

-----------------------------------------------------------------------------
(* Operations, as functions of the table (t), its size (n) and count (c) *)

\* what a mutating method leaves behind and returns
Outcome(t, c, ret, coll) == [table |-> t, count |-> c, ret |-> ret, coll |-> coll]

\* "if self.count >= self.size * 0.9: if self.count >= self.size:"
Overflow(c, n) == (c * 10 >= n * 9) /\ (c >= n)

\* the full table answering True
OverflowAccepted(t, c) == Outcome(t, c, TRUE, {})

\* "return False  # Таблица переполнена"
OverflowResult(t, c) == Outcome(t, c, FALSE, {})

\* the update of an existing element also counting it
UpdateCounted(t, c, existing_pos, key, value) ==
    Outcome([t EXCEPT ![existing_pos] = Tuple(key, value)], c + 1, TRUE, {})

\* "self.table[existing_pos] = (key, value); return True"
UpdateExisting(t, c, existing_pos, key, value) ==
    Outcome([t EXCEPT ![existing_pos] = Tuple(key, value)], c, TRUE, {})

\* the insertion that ignores pos and fills the lowest-numbered None slot
InsertNewAtLowestEmpty(t, c, pos, key, value) ==
    LET free == {i \in DOMAIN t : t[i] = None}
        low  == CHOOSE i \in free : \A j \in free : i <= j
    IN  Outcome([t EXCEPT ![low] = Tuple(key, value)], c + 1, TRUE, {})

\* "self.table[pos] = (key, value); self.count += 1; return True"
InsertNew(t, c, pos, key, value) ==
    Outcome([t EXCEPT ![pos] = Tuple(key, value)], c + 1, TRUE, {})

\* HashTable.add
add(t, n, c, key, value) ==
    IF ~validate_key(key) THEN Outcome(t, c, FALSE, {})
    ELSE IF Overflow(c, n) THEN OverflowResult(t, c)
    ELSE LET existing_pos == find_position(t, n, key, FALSE)
         IN  IF existing_pos # NonePos
             THEN UpdateExisting(t, c, existing_pos, key, value)
             ELSE LET pos == find_position(t, n, key, TRUE)
                  IN  IF pos = NonePos
                      THEN Outcome(t, c, FALSE, {})
                      ELSE InsertNew(t, c, pos, key, value)

\* the deletion that reports success without touching the slot
MarkNothing(t, n, c, key, pos) ==
    Outcome(t, c - 1, TRUE, find_collision_elements(t, n, t[pos].key, pos))

\* the deletion that also turns every other deleted slot back into None
MarkDeletedSweeping(t, n, c, key, pos) ==
    LET deleted_key == t[pos].key
        t2          == [i \in DOMAIN t |->
                           IF i = pos THEN deleted_marker
                           ELSE IF t[i] = deleted_marker THEN None
                           ELSE t[i]]
    IN  Outcome(t2, c - 1, TRUE, find_collision_elements(t2, n, deleted_key, pos))

\* "self.table[pos] = self.deleted_marker; self.count -= 1" and the
\* collision search on the table so changed
MarkDeleted(t, n, c, key, pos) ==
    LET deleted_key == t[pos].key
        t2          == [t EXCEPT ![pos] = deleted_marker]
    IN  Outcome(t2, c - 1, TRUE, find_collision_elements(t2, n, deleted_key, pos))

\* HashTable.delete
delete(t, n, c, key) ==
    LET pos == find_position(t, n, key, FALSE)
    IN  IF pos = NonePos THEN Outcome(t, c, FALSE, {})
        ELSE MarkDeleted(t, n, c, key, pos)

-----------------------------------------------------------------------------
(* Queries *)

\* search_by_key's "return None"; a found element is [pos, key, val]
NoneFound == [pos |-> NonePos, key |-> <<>>, val |-> NoneVal]

\* HashTable.search_by_key
search_by_key(t, n, key) ==
    LET pos == find_position(t, n, key, FALSE)
    IN  IF pos # NonePos /\ t[pos].tag = "tuple"
        THEN [pos |-> pos, key |-> t[pos].key, val |-> t[pos].val]
        ELSE NoneFound

\* search_by_segment that only checks the upper end of the range; Python
\* reads table[segment] for a negative segment from the end of the list
SearchBySegmentNoLowerCheck(t, n, segment) ==
    IF segment >= n THEN None
    ELSE LET item == t[segment % n]
         IN  IF item.tag = "tuple" THEN item ELSE None

\* HashTable.search_by_segment: the (key, value) tuple, or None
search_by_segment(t, n, segment) ==
    IF segment < 0 \/ segment >= n THEN None
    ELSE LET item == t[segment]
         IN  IF item = None \/ item = deleted_marker THEN None
             ELSE IF item.tag = "tuple" THEN item
             ELSE None

RECURSIVE ViewFrom(_, _, _)
\* the loop of view from segment i; a row is <<segment, key, value>> with
\* <<>> and NoneVal for the None of an empty or deleted segment
ViewFrom(t, n, i) ==
    IF i >= n THEN <<>>
    ELSE LET item == t[i]
             row  == IF item = None \/ item = deleted_marker
                     THEN << <<i, <<>>, NoneVal>> >>
                     ELSE IF item.tag = "tuple"
                     THEN << <<i, item.key, item.val>> >>
                     ELSE <<>>
         IN  row \o ViewFrom(t, n, i + 1)

\* HashTable.view
view(t, n) == ViewFrom(t, n, 0)

\* get_statistics counting every slot that is not None as filled
StatisticsDeletedAsFilled(t, n, c) ==
    LET filled == Cardinality({i \in 0..(n - 1) : t[i] # None})
    IN  [size |-> n, filled |-> filled,
         empty |-> Cardinality({i \in 0..(n - 1) : t[i] = None}),
         deleted |-> Cardinality({i \in 0..(n - 1) : t[i] = deleted_marker}),
         count |-> c,
         fill_percentage |-> <<filled * 100, n>>]

\* HashTable.get_statistics; fill_percentage = filled / size * 100 is kept
\* as the fraction <<filled * 100, size>>
get_statistics(t, n, c) ==
    LET filled == Cardinality({i \in 0..(n - 1) :
                                  t[i] # None /\ t[i] # deleted_marker})
    IN  [size |-> n, filled |-> filled,
         empty |-> Cardinality({i \in 0..(n - 1) : t[i] = None}),
         deleted |-> Cardinality({i \in 0..(n - 1) : t[i] = deleted_marker}),
         count |-> c,
         fill_percentage |-> IF n > 0 THEN <<filled * 100, n>> ELSE <<0, 1>>]

-----------------------------------------------------------------------------
(* The state machine: one action per public method *)

\* the last call: method, arguments and what it returned
Result(op, key, val, ok, out, coll) ==
    [op |-> op, key |-> key, val |-> val, ok |-> ok, out |-> out, coll |-> coll]

\* the probe loop of find_position: h1, h2, the loop counter i and the
\* indices computed so far
Walk(h1, h2) == [h1 |-> h1, h2 |-> h2, i |-> 0, indices |-> <<>>]

\* no probe loop is running
NoWalk == Walk(0, 1)

\* HashTable.__init__
Init ==
    /\ size \in Sizes
    /\ table = [i \in 0..(size - 1) |-> None]
    /\ count = 0
    /\ last = Result("init", <<>>, NoneVal, FALSE, NoneVal, {})
    /\ walk = NoWalk

Add(key, value) ==
    LET r == add(table, size, count, key, value)
    IN  /\ table' = r.table
        /\ count' = r.count
        /\ last' = Result("add", key, value, r.ret, NoneVal, {})
        /\ UNCHANGED <<size, walk>>

Get(key) ==
    /\ last' = Result("get", key, NoneVal, FALSE, get(table, size, key), {})
    /\ UNCHANGED <<size, table, count, walk>>

Delete(key) ==
    LET r == delete(table, size, count, key)
    IN  /\ table' = r.table
        /\ count' = r.count
        /\ last' = Result("delete", key, NoneVal, r.ret, NoneVal, r.coll)
        /\ UNCHANGED <<size, walk>>

\* HashTable.search_by_key
SearchByKey(key) ==
    /\ last' = Result("search_by_key", key, NoneVal, FALSE,
                      search_by_key(table, size, key), {})
    /\ UNCHANGED <<size, table, count, walk>>

\* HashTable.search_by_segment
SearchBySegment(segment) ==
    /\ last' = Result("search_by_segment", <<segment>>, NoneVal, FALSE,
                      search_by_segment(table, size, segment), {})
    /\ UNCHANGED <<size, table, count, walk>>

\* HashTable.view
View ==
    /\ last' = Result("view", <<>>, NoneVal, FALSE, view(table, size), {})
    /\ UNCHANGED <<size, table, count, walk>>

\* HashTable.get_statistics
GetStatistics ==
    /\ last' = Result("get_statistics", <<>>, NoneVal, FALSE,
                      get_statistics(table, size, count), {})
    /\ UNCHANGED <<size, table, count, walk>>

\* clear_table (main.py): on the answer 'y' every segment becomes [] and
\* count 0; any other answer changes nothing
ClearTable(confirm) ==
    /\ IF confirm = "y"
       THEN /\ table' = [i \in 0..(size - 1) |-> EmptyList]
            /\ count' = 0
       ELSE UNCHANGED <<table, count>>
    /\ last' = Result("clear_table", <<>>, confirm, confirm = "y", NoneVal, {})
    /\ UNCHANGED <<size, walk>>

Query ==
    \/ \E key \in Keys : SearchByKey(key)
    \/ \E segment \in Segments(size) : SearchBySegment(segment)
    \/ View
    \/ GetStatistics

Next ==
    \/ \E key \in Keys, value \in Values : Add(key, value)
    \/ \E key \in Keys : Get(key)
    \/ \E key \in Keys : Delete(key)

\* a table of any size, about to run the probe loop from any start h1 in
\* [0, size) with any step h2
InitProbe ==
    /\ size \in Sizes
    /\ table = [i \in 0..(size - 1) |-> None]
    /\ count = 0
    /\ last = Result("init", <<>>, NoneVal, FALSE, NoneVal, {})
    /\ \E h1 \in 0..(size - 1), h2 \in Steps : walk = Walk(h1, h2)

\* one iteration of `for i in range(self.size)`: index = (h1 + i*h2) % size,
\* on a scan that no slot ends early
ProbeStep ==
    /\ walk.i < size
    /\ walk' = [walk EXCEPT !.i = @ + 1,
                            !.indices = Append(@, ProbeIndex(walk.h1, walk.h2,
                                                             size, walk.i))]
    /\ UNCHANGED <<size, table, count, last>>

\* the probe loop alone, from any start and step
SpecProbe == InitProbe /\ [][ProbeStep]_vars

-----------------------------------------------------------------------------
(* A call executed loop iteration by loop iteration *)

\* the locals of a running call: the method and its arguments, the loop it
\* is in (pc), the loop counter i, the indices computed by the running loop,
\* the result of the finished scan (pos) and the iteration counts of the
\* loops already finished (scans)
Running(op, key, val, n) ==
    [h1 |-> Hash1Of[n][key], h2 |-> Hash2Of[n][key], i |-> 0, indices |-> <<>>,
     op |-> op, key |-> key, val |-> val, pc |-> "scan", for_insert |-> FALSE,
     pos |-> NonePos, scans |-> <<>>]

\* a loop that runs one iteration more than range(self.size) has
LoopEndsLate(i, n) == i > n

\* "for i in range(self.size)" has no iteration i
LoopEnds(i, n) == i >= n

\* the body of find_position's loop on one slot: stop with a position to
\* return (NonePos for None), or go on
Examine(t, index, key, for_insert) ==
    LET item == t[index]
    IN  IF item = None
        THEN [stop |-> TRUE, pos |-> IF for_insert THEN index ELSE NonePos]
        ELSE IF item = deleted_marker /\ for_insert
        THEN [stop |-> FALSE, pos |-> NonePos]
        ELSE IF item.tag = "tuple" /\ item.key = key
        THEN [stop |-> TRUE, pos |-> index]
        ELSE [stop |-> FALSE, pos |-> NonePos]

\* the methods that return before any loop: add on an invalid key or a
\* full table, and find_position on an invalid key
ReturnsAtOnce(op, key) ==
    \/ ~validate_key(key)
    \/ op = "add" /\ Overflow(count, size)

\* what the method leaves behind when it returns; of search_by_key's tuple
\* the record keeps whether an element was found (ok) and its value (out)
Effect(op, key, val) ==
    IF op = "add"
    THEN LET r == add(table, size, count, key, val)
         IN  /\ table' = r.table
             /\ count' = r.count
             /\ last' = Result("add", key, val, r.ret, NoneVal, {})
    ELSE IF op = "delete"
    THEN LET r == delete(table, size, count, key)
         IN  /\ table' = r.table
             /\ count' = r.count
             /\ last' = Result("delete", key, NoneVal, r.ret, NoneVal, r.coll)
    ELSE IF op = "get"
    THEN /\ last' = Result("get", key, NoneVal, FALSE, get(table, size, key), {})
         /\ UNCHANGED <<table, count>>
    ELSE LET r == search_by_key(table, size, key)
         IN  /\ last' = Result("search_by_key", key, NoneVal,
                               r.pos # NonePos, r.val, {})
             /\ UNCHANGED <<table, count>>

\* a method is called: it returns at once, or enters the lookup scan
\* find_position(key, for_insert=False)
Call(op, key, val) ==
    /\ walk = NoWalk
    /\ IF ReturnsAtOnce(op, key)
       THEN Effect(op, key, val) /\ UNCHANGED walk
       ELSE /\ walk' = Running(op, key, val, size)
            /\ last' = Result(op, key, val, FALSE, NoneVal, {})
            /\ UNCHANGED <<table, count>>
    /\ UNCHANGED size

\* find_position has returned pos: add goes on to the insertion scan when
\* the key was not found, delete to the deleted_path loop when it was,
\* every other case returns to the caller
AfterScan(w, pos, done) ==
    LET ended == [w EXCEPT !.scans = Append(@, done), !.pos = pos]
    IN  IF w.op = "add" /\ ~w.for_insert /\ pos = NonePos
        THEN [ended EXCEPT !.for_insert = TRUE, !.i = 0, !.indices = <<>>]
        ELSE IF w.op = "delete" /\ pos # NonePos
        THEN [ended EXCEPT !.pc = "path", !.i = 0, !.indices = <<>>]
        ELSE [ended EXCEPT !.pc = "return", !.i = done]

\* one iteration of find_position's loop, or its end ("return None")
ScanStep ==
    /\ walk # NoWalk /\ walk.pc = "scan"
    /\ IF LoopEnds(walk.i, size)
       THEN walk' = AfterScan(walk, NonePos, walk.i)
       ELSE LET index == ProbeIndex(walk.h1, walk.h2, size, walk.i)
                seen  == [walk EXCEPT !.indices = Append(@, index)]
                v     == Examine(table, index, walk.key, walk.for_insert)
            IN  walk' = IF v.stop THEN AfterScan(seen, v.pos, walk.i + 1)
                        ELSE [seen EXCEPT !.i = @ + 1]
    /\ UNCHANGED <<size, table, count, last>>

\* one iteration of the deleted_path loop of _find_collision_elements, or
\* its end
PathStep ==
    /\ walk # NoWalk /\ walk.pc = "path"
    /\ IF LoopEnds(walk.i, size)
       THEN walk' = [walk EXCEPT !.pc = "return", !.scans = Append(@, walk.i)]
       ELSE LET pos  == ProbeIndex(walk.h1, walk.h2, size, walk.i)
                seen == [walk EXCEPT !.indices = Append(@, pos), !.i = @ + 1]
            IN  walk' = IF pos = walk.pos
                        THEN [seen EXCEPT !.pc = "return",
                                          !.scans = Append(@, walk.i + 1)]
                        ELSE seen
    /\ UNCHANGED <<size, table, count, last>>

\* the method returns to its caller
Return ==
    /\ walk # NoWalk /\ walk.pc = "return"
    /\ walk' = NoWalk
    /\ Effect(walk.op, walk.key, walk.val)
    /\ UNCHANGED size

Step == ScanStep \/ PathStep \/ Return

NextScan ==
    \/ \E key \in Keys, value \in Values : Call("add", key, value)
    \/ \E key \in Keys : Call("get", key, NoneVal)
    \/ \E key \in Keys : Call("search_by_key", key, NoneVal)
    \/ \E key \in Keys : Call("delete", key, NoneVal)
    \/ ScanStep
    \/ PathStep
    \/ Return

\* calls one after another, each run loop iteration by loop iteration; a
\* call that has begun keeps running (the program is sequential)
SpecScan == Init /\ [][NextScan]_vars /\ WF_walk(Step)

\* add, get and delete in any order
Spec == Init /\ [][Next]_vars

\* add, get, delete and the queries in any order
SpecQuery == Init /\ [][Next \/ Query]_vars

\* add, get, delete and clear_table in any order
SpecReset == Init /\ [][Next \/ \E confirm \in {"y", "n"} : ClearTable(confirm)]_vars

-----------------------------------------------------------------------------
(* Vocabulary of the properties *)

ValidKeys == {k \in Keys : validate_key(k)}

\* the slots holding (key, _)
SlotsOf(t, key) == {i \in DOMAIN t : t[i].tag = "tuple" /\ t[i].key = key}

\* key is live: some Occupied slot holds it
KeyInTable(t, key) == SlotsOf(t, key) # {}

NumOccupied(t) == Cardinality({i \in DOMAIN t : t[i].tag = "tuple"})

NumDeleted(t) == Cardinality({i \in DOMAIN t : t[i] = deleted_marker})

\* get finds key and returns v
Found(t, n, key, v) ==
    find_position(t, n, key, FALSE) # NonePos /\ get(t, n, key) = v

RECURSIVE GCD(_, _)
GCD(a, b) == IF b = 0 THEN a ELSE GCD(b, a % b)

\* the indices find_position visits when nothing stops it
ProbeSequence(key, n) ==
    {ProbeIndex(hash1(key, n), hash2(key, n), n, i) : i \in 0..(n - 1)}

\* the step just taken is a call of op on key
Called(op, key) == last'.op = op /\ last'.key = key

-----------------------------------------------------------------------------
(* C1: once add(k, v) has returned True, get(k) returns v in every later   *)
(* state, whatever add/delete/get calls are made on other keys, until k is *)
(* deleted or overwritten.  Stated step by step: a successful add(k, v)    *)
(* makes get(k) = v, and a call that is not add(k, _) or delete(k) keeps   *)
(* get(k) for every live key k.                                            *)
C1_GetReturnsAddedValue ==
    [][\A k \in Keys :
        /\ (Called("add", k) /\ last'.ok) => Found(table', size', k, last'.val)
        /\ LET pos == find_position(table, size, k, FALSE)
           IN  (pos # NonePos /\ ~Called("add", k) /\ ~Called("delete", k))
               => Found(table', size', k, table[pos].val)
      ]_vars

\* a live key displaced from its home slot survives a successful add of
\* another key whose probe sequence starts at the slot the live key is in
C1_Witness ==
    \E k \in ValidKeys :
        /\ last.op = "add" /\ last.ok /\ last.key # k
        /\ KeyInTable(table, k)
        /\ hash1(k, size) \notin SlotsOf(table, k)
        /\ hash1(last.key, size) \in SlotsOf(table, k)

-----------------------------------------------------------------------------
(* C2: add(k, v) of a valid key k that is not in the table returns True    *)
(* and increments count whenever count < N.                                *)
C2_AddSucceedsBelowCapacity ==
    [][\A k \in ValidKeys :
        (Called("add", k) /\ ~KeyInTable(table, k) /\ count < size)
        => (last'.ok /\ count' = count + 1)
      ]_vars

-----------------------------------------------------------------------------
(* C3: after delete(k) succeeds, every other key that was live before the  *)
(* deletion is still found by get, with its value unchanged.               *)
C3_DeleteKeepsOtherKeys ==
    [][\A k \in Keys :
        (Called("delete", k) /\ last'.ok)
        => \A j \in Keys \ {k} : \A i \in SlotsOf(table, j) :
              Found(table', size', j, table[i].val)
      ]_vars

\* a key was deleted from the home slot of another live key, which is now
\* reached only by probing past the deleted slot
C3_Witness ==
    \E j \in ValidKeys :
        /\ last.op = "delete" /\ last.ok /\ last.key # j
        /\ KeyInTable(table, j)
        /\ table[hash1(j, size)] = deleted_marker
        /\ hash1(last.key, size) = hash1(j, size)

-----------------------------------------------------------------------------
(* C4: add(k, v1) and then add(k, v2) with v1 # v2: count is as after the  *)
(* first add, k stays in its slot, and get(k) returns v2.                  *)
C4_UpsertIdempotent ==
    [][\A k \in ValidKeys :
        ( /\ last.op = "add" /\ last.key = k /\ last.ok
          /\ Called("add", k) /\ last'.val # last.val )
        => /\ count' = count
           /\ SlotsOf(table', k) = SlotsOf(table, k)
           /\ Found(table', size', k, last'.val)
      ]_vars

-----------------------------------------------------------------------------
(* C5: for every valid key and every table size N, hash2(key) is nonzero   *)
(* and coprime with N, so the probe sequence is a permutation of all N     *)
(* slot indices.                                                           *)
C5_Hash2Coprime ==
    \A k \in ValidKeys :
        /\ hash2(k, size) # 0
        /\ GCD(hash2(k, size), size) = 1
        /\ ProbeSequence(k, size) = 0..(size - 1)

-----------------------------------------------------------------------------
(* C6: count equals the number of Occupied slots in every reachable state; *)
(* it goes up by one exactly on a successful insertion of a new key, down  *)
(* by one exactly on a successful deletion, and is unchanged on upsert and *)
(* on every failed operation.                                              *)
C6_CountIsOccupied ==
    [][ /\ count = NumOccupied(table)
        /\ count' = NumOccupied(table')
        /\ count' - count =
             IF last'.op = "add" /\ last'.ok /\ ~KeyInTable(table, last'.key)
             THEN 1
             ELSE IF last'.op = "delete" /\ last'.ok THEN -1
             ELSE 0
      ]_vars

\* a successful delete has left a deleted slot next to two live keys, and
\* count is the number of Occupied slots
C6_Witness ==
    /\ last.op = "delete" /\ last.ok
    /\ count = NumOccupied(table) /\ count = 2
    /\ NumDeleted(table) >= 1

-----------------------------------------------------------------------------
(* C7: each key occupies at most one Occupied slot, also after delete and  *)
(* re-insert of the same key.                                              *)
C7_OneSlotPerKey ==
    \A k \in Keys : Cardinality(SlotsOf(table, k)) <= 1

\* k was deleted from its home slot and inserted again: it is the only live
\* key, its home slot is the only deleted slot, and no other key can have
\* been there (every other key's home slot is still Empty)
C7_Witness ==
    \E k \in ValidKeys :
        /\ last.op = "add" /\ last.ok /\ last.key = k
        /\ count = 1 /\ NumDeleted(table) = 1
        /\ table[hash1(k, size)] = deleted_marker
        /\ KeyInTable(table, k)
        /\ \A j \in ValidKeys \ {k} : table[hash1(j, size)] = None

-----------------------------------------------------------------------------
(* C8: a key that does not match the pattern is rejected by add (False),   *)
(* get (not found) and delete ((False, [])), and the slot array and count  *)
(* are unchanged.                                                          *)
C8_InvalidKeyRejected ==
    [][\A k \in Keys :
        (~KEY_PATTERN(k) /\ last'.key = k /\ last'.op \in {"add", "get", "delete"})
        => /\ table' = table /\ count' = count
           /\ (last'.op = "add" => ~last'.ok)
           /\ (last'.op = "get" => last'.out = NoneVal)
           /\ (last'.op = "delete" => ~last'.ok /\ last'.coll = {})
      ]_vars

\* add of a malformed key was refused on a table with room and live keys
C8_Witness ==
    /\ last.op = "add" /\ ~KEY_PATTERN(last.key) /\ ~last.ok
    /\ 0 < count /\ count < size

-----------------------------------------------------------------------------
(* C9: delete(k) of a valid key: if k is live its slot becomes Tombstone,  *)
(* count decreases by one, the call succeeds and get(k) is not found from  *)
(* then on (a second delete fails) until k is inserted again; if k is not  *)
(* live the call returns (False, []) and changes nothing.                  *)
C9_DeleteSemantics ==
    [][\A k \in ValidKeys :
        /\ (Called("delete", k) /\ KeyInTable(table, k))
           => /\ last'.ok
              /\ count' = count - 1
              /\ \E p \in SlotsOf(table, k) :
                    table' = [table EXCEPT ![p] = deleted_marker]
              /\ find_position(table', size', k, FALSE) = NonePos
        /\ (Called("delete", k) /\ ~KeyInTable(table, k))
           => /\ ~last'.ok /\ last'.coll = {}
              /\ table' = table /\ count' = count
        /\ (~KeyInTable(table, k) /\ ~Called("add", k))
           => /\ ~KeyInTable(table', k)
              /\ find_position(table', size', k, FALSE) = NonePos
      ]_vars

\* a delete of an already deleted key has failed: the key's home slot is
\* the only slot ever used and no other key starts its probe sequence there
C9_Witness ==
    /\ last.op = "delete" /\ ~last.ok /\ KEY_PATTERN(last.key)
    /\ table[hash1(last.key, size)] = deleted_marker
    /\ count = 0 /\ NumDeleted(table) = 1
    /\ \A j \in ValidKeys \ {last.key} : hash1(j, size) # hash1(last.key, size)

-----------------------------------------------------------------------------
(* C10: when count = N, add of a valid key that is not in the table        *)
(* returns False and leaves the slot array and count unchanged.            *)
C10_FullTableRejects ==
    [][\A k \in ValidKeys :
        (Called("add", k) /\ ~KeyInTable(table, k) /\ count = size)
        => (~last'.ok /\ table' = table /\ count' = count)
      ]_vars

\* a valid key that is not in the table was refused by a full table
C10_Witness ==
    /\ last.op = "add" /\ ~last.ok /\ KEY_PATTERN(last.key)
    /\ ~KeyInTable(table, last.key)
    /\ count = size /\ NumOccupied(table) = size

-----------------------------------------------------------------------------
(* C11: if an Occupied slot with key k exists, add(k, v) overwrites its    *)
(* value in place, leaves count unchanged and returns True in every        *)
(* reachable state, also when the table is full (count = N).               *)
C11_UpsertAlwaysSucceeds ==
    [][\A k \in ValidKeys :
        (Called("add", k) /\ KeyInTable(table, k))
        => /\ last'.ok
           /\ count' = count
           /\ \E p \in SlotsOf(table, k) :
                 table' = [table EXCEPT ![p] = Tuple(k, last'.val)]
      ]_vars

-----------------------------------------------------------------------------
(* C12: two distinct valid keys a and b with hash1(a) = hash1(b), added in *)
(* that order to a table whose slots hash1(a) and (hash1(b) + hash2(b))    *)
(* mod N are Empty: b lands at (hash1(b) + hash2(b)) mod N; after          *)
(* delete(a), get(b) still succeeds and the collision list of delete(a)    *)
(* contains b.  And every live key whose hash1 equals the deleted key's    *)
(* hash1 is in the collision list of a successful delete.                  *)

\* the slot after the home slot on b's probe sequence
SecondSlot(b, n) == ProbeIndex(Hash1Of[n][b], Hash2Of[n][b], n, 1)

\* add(a, v); add(b, w); delete(a) from table t, with what the claim expects
CollisionScenario(t, n, c, a, b, v, w) ==
    LET r1 == add(t, n, c, a, v)
        r2 == add(r1.table, n, r1.count, b, w)
        r3 == delete(r2.table, n, r2.count, a)
    IN  /\ r2.table[SecondSlot(b, n)] = Tuple(b, w)
        /\ r3.ret
        /\ b \in r3.coll
        /\ Found(r3.table, n, b, w)

\* the scenario from every reachable table of at least minSize slots whose
\* two slots are Empty
CollisionScenarioFrom(minSize) ==
    \A a \in ValidKeys : \A b \in ValidKeys \ {a} :
        ( /\ size >= minSize
          /\ Hash1Of[size][a] = Hash1Of[size][b]
          /\ table[Hash1Of[size][a]] = None
          /\ table[SecondSlot(b, size)] = None )
        => \A v \in Values : \A w \in Values :
              CollisionScenario(table, size, count, a, b, v, w)

\* a successful delete reports every live key with the deleted key's hash1
PrimaryCollisionsReported ==
    (last.op = "delete" /\ last.ok)
    => \A j \in ValidKeys :
          (KeyInTable(table, j) /\ Hash1Of[size][j] = Hash1Of[size][last.key])
          => j \in last.coll

\* the claim as stated: every table size
C12_CollidingPairAnySize ==
    CollisionScenarioFrom(1) /\ PrimaryCollisionsReported

\* the claim for tables of at least two slots, where the two slots differ
C12_CollidingPair ==
    CollisionScenarioFrom(2) /\ PrimaryCollisionsReported

\* delete(a) has reported b: b has a's hash1 and sits in the second slot of
\* its probe sequence, behind the deleted home slot
C12_Witness ==
    \E b \in ValidKeys :
        /\ last.op = "delete" /\ last.ok /\ b \in last.coll
        /\ Hash1Of[size][b] = Hash1Of[size][last.key]
        /\ table[Hash1Of[size][b]] = deleted_marker
        /\ SecondSlot(b, size) \in SlotsOf(table, b)
        /\ Found(table, size, b, table[SecondSlot(b, size)].val)

-----------------------------------------------------------------------------
(* C13: reset from any reachable state leaves the table as constructed:    *)
(* all N slots Empty and count 0, so that afterwards every get is not      *)
(* found, statistics report filled = 0 and empty = N, view returns N empty *)
(* rows, and add of a valid key succeeds and is then found by get.         *)
C13_ResetReinitializes ==
    [][(last'.op = "clear_table" /\ last'.ok)
       => /\ table' = [i \in 0..(size - 1) |-> None]
          /\ count' = 0
          /\ \A k \in Keys : find_position(table', size', k, FALSE) = NonePos
          /\ get_statistics(table', size', count').filled = 0
          /\ get_statistics(table', size', count').empty = size
          /\ view(table', size') = [i \in 1..size |-> <<i - 1, <<>>, NoneVal>>]
          /\ \A k \in ValidKeys : \A v \in Values :
                LET r == add(table', size', count', k, v)
                IN  r.ret /\ Found(r.table, size', k, v)
      ]_vars

-----------------------------------------------------------------------------
(* C14: in every state reached by add and delete, get_statistics reports   *)
(* size = N, filled = number of Occupied slots, empty = number of Empty    *)
(* slots, deleted = number of Tombstone slots and count = live count, with *)
(* filled + empty + deleted = size and filled = count.                     *)

NumEmpty(t) == Cardinality({i \in DOMAIN t : t[i] = None})

\* st is what the claim says of the statistics of the current state
StatisticsAsClaimed(st) ==
    /\ st.size = size
    /\ st.filled = NumOccupied(table)
    /\ st.empty = NumEmpty(table)
    /\ st.deleted = NumDeleted(table)
    /\ st.count = count
    /\ st.count = NumOccupied(table)
    /\ st.filled + st.empty + st.deleted = st.size
    /\ st.filled = st.count

C14_StatisticsConsistent ==
    /\ StatisticsAsClaimed(get_statistics(table, size, count))
    /\ last.op = "get_statistics" => StatisticsAsClaimed(last.out)

\* statistics were taken of a table with Occupied, Empty and Tombstone slots
C14_Witness ==
    /\ last.op = "get_statistics"
    /\ last.out.filled >= 1 /\ last.out.empty >= 1 /\ last.out.deleted >= 1

-----------------------------------------------------------------------------
(* C15: the outcome of get, search_by_key and delete on a key that fails   *)
(* validation can be told apart by the caller from the outcome of the same *)
(* operation on a valid key that is absent from the table.                 *)
C15_InvalidKeyDistinguishable ==
    \A bad \in Keys \ ValidKeys : \A absent \in ValidKeys :
        ~KeyInTable(table, absent)
        => /\ get(table, size, bad) # get(table, size, absent)
           /\ search_by_key(table, size, bad) # search_by_key(table, size, absent)
           /\ LET rb == delete(table, size, count, bad)
                  ra == delete(table, size, count, absent)
              IN  <<rb.ret, rb.coll>> # <<ra.ret, ra.coll>>

-----------------------------------------------------------------------------
(* C16: search_by_segment(i) returns the (key, value) pair exactly when    *)
(* 0 <= i < N and slot i is Occupied; for an Empty or Tombstone slot and   *)
(* for every i outside [0, N) it returns the empty result, as an ordinary  *)
(* value and without changing the table.                                   *)
C16_SearchBySegment ==
    [][\A i \in Segments(size) :
        (last'.op = "search_by_segment" /\ last'.key = <<i>>)
        => /\ table' = table /\ count' = count
           /\ last'.out = IF 0 <= i /\ i < size /\ table[i].tag = "tuple"
                          THEN Tuple(table[i].key, table[i].val)
                          ELSE None
      ]_vars

\* segment -1 was asked for while the last slot is Occupied and another slot
\* is deleted: the answer is the empty result
C16_Witness ==
    /\ last.op = "search_by_segment" /\ last.key = <<-1>>
    /\ last.out = None
    /\ table[size - 1].tag = "tuple"
    /\ NumDeleted(table) >= 1

-----------------------------------------------------------------------------
(* C17: for any N >= 1, any h1 in [0, N) and any step h2 coprime to N, the *)
(* indices (h1 + i*h2) mod N for i = 0..N-1 are N distinct values: the     *)
(* probe loop never computes an index twice and, once it has run N times,  *)
(* has visited every slot exactly once.                                    *)
C17_ProbeVisitsEverySlotOnce ==
    GCD(walk.h2, size) = 1
    => /\ \A a, b \in 1..Len(walk.indices) :
            a # b => walk.indices[a] # walk.indices[b]
       /\ walk.i = size
          => /\ Len(walk.indices) = size
             /\ {walk.indices[a] : a \in 1..size} = 0..(size - 1)

\* a finished loop over at least 4 slots with a coprime step other than 1,
\* started away from slot 0
C17_Witness ==
    /\ size >= 4 /\ walk.i = size
    /\ walk.h1 > 0 /\ walk.h2 > 1 /\ walk.h2 < size
    /\ GCD(walk.h2, size) = 1
    /\ Cardinality({walk.indices[a] : a \in 1..size}) = size

-----------------------------------------------------------------------------
(* C18: when add inserts a valid key that is not in the table, the slot it *)
(* occupies is the first slot on the key's probe sequence that is Empty or *)
(* Tombstone; a Tombstone that precedes the first Empty slot is turned     *)
(* into Occupied by the insert.                                            *)
IsFree(slot) == slot.tag = "None" \/ slot.tag = "deleted"

C18_TombstoneReused ==
    [][\A k \in ValidKeys :
        (Called("add", k) /\ ~KeyInTable(table, k) /\ last'.ok)
        => \E i \in 0..(size - 1) :
              LET p == ProbeIndex(Hash1Of[size][k], Hash2Of[size][k], size, i)
              IN  /\ IsFree(table[p])
                  /\ \A j \in 0..(i - 1) :
                        ~IsFree(table[ProbeIndex(Hash1Of[size][k],
                                                 Hash2Of[size][k], size, j)])
                  /\ table'[p] = Tuple(k, last'.val)
      ]_vars

-----------------------------------------------------------------------------
(* C19: under any sequence of add and delete each slot only goes from      *)
(* Empty to Occupied (by add), from Occupied to Tombstone (by delete) and  *)
(* from Tombstone to Occupied (by add): a Tombstone or Occupied slot never *)
(* becomes Empty, an Empty slot never becomes Tombstone directly, and an   *)
(* Occupied slot never changes its key (upsert changes only the value).    *)
SlotStep(before, after) ==
    \/ after.tag = before.tag /\ after.key = before.key
    \/ before.tag = "None" /\ after.tag = "tuple" /\ last'.op = "add"
    \/ before.tag = "tuple" /\ after.tag = "deleted" /\ last'.op = "delete"
    \/ before.tag = "deleted" /\ after.tag = "tuple" /\ last'.op = "add"

C19_SlotTransitions ==
    [][\A i \in 0..(size - 1) :
        /\ table'[i].tag \in {"None", "tuple", "deleted"}
        /\ SlotStep(table[i], table'[i])
        /\ (table[i].tag = "tuple" /\ table'[i].tag = "tuple"
            /\ table'[i].val # table[i].val)
           => Called("add", table[i].key)
      ]_vars

\* a delete has just turned an Occupied slot into a Tombstone while an
\* earlier Tombstone and a live key stay in place
C19_Witness ==
    /\ last.op = "delete" /\ last.ok
    /\ NumDeleted(table) >= 2
    /\ NumOccupied(table) >= 1

-----------------------------------------------------------------------------
(* C20: on a successful delete(k) from slot p the returned collision list  *)
(* is, as a set, exactly (a) every live key j # k with hash1(j) = hash1(k) *)
(* union (b) every live key j # k whose slot lies on k's probe path and    *)
(* whose hash1(j) lies on that path too, the path being the indices        *)
(* (hash1(k) + i*hash2(k)) mod N from i = 0 up to and including slot p;    *)
(* it never holds k nor a key that is not live.                            *)
PathUpTo(k, n, p) ==
    LET at(i) == (Hash1Of[n][k] + i * Hash2Of[n][k]) % n
        m     == CHOOSE i \in 0..(n - 1) :
                    at(i) = p /\ \A j \in 0..(i - 1) : at(j) # p
    IN  {at(i) : i \in 0..m}

ExpectedCollisions(t, n, k, p) ==
    LET path == PathUpTo(k, n, p)
    IN  {j \in Keys \ {k} :
            /\ KeyInTable(t, j)
            /\ \/ Hash1Of[n][j] = Hash1Of[n][k]
               \/ /\ SlotsOf(t, j) \cap path # {}
                  /\ Hash1Of[n][j] \in path}

C20_CollisionList ==
    [][\A k \in ValidKeys :
        (Called("delete", k) /\ last'.ok)
        => /\ \E p \in SlotsOf(table, k) :
                last'.coll = ExpectedCollisions(table', size, k, p)
           /\ k \notin last'.coll
           /\ \A j \in last'.coll : KeyInTable(table', j)
      ]_vars

\* a delete has reported a key whose hash1 differs from the deleted key's
\* (case (b)) while another live key, off the path, is not reported
C20_Witness ==
    /\ last.op = "delete" /\ last.ok
    /\ \E j \in last.coll : Hash1Of[size][j] # Hash1Of[size][last.key]
    /\ \E j \in ValidKeys : KeyInTable(table, j) /\ j \notin last.coll

-----------------------------------------------------------------------------
(* C21: every add, get, search_by_key and delete call terminates in every  *)
(* reachable state, for every table size N >= 1 and every key, after       *)
(* examining at most N slots per probe scan, whether or not hash2 is       *)
(* coprime with N and whether or not the table is full of tombstones.      *)
ScanBounded ==
    walk # NoWalk
    => /\ walk.i <= size
       /\ Len(walk.indices) <= size
       /\ \A a \in 1..Len(walk.scans) : walk.scans[a] <= size

C21_CallsTerminate ==
    /\ [](ScanBounded)
    /\ (walk # NoWalk) ~> (walk = NoWalk)

\* a lookup scan has run all N iterations with a step that is not coprime
\* with N, over deleted slots only
C21_Witness ==
    /\ walk # NoWalk /\ walk.pc = "scan" /\ ~walk.for_insert
    /\ walk.i = size
    /\ GCD(walk.h2, size) > 1
    /\ \A a \in 1..size : table[walk.indices[a]] = deleted_marker

\* the position a step-by-step call hands back is the one find_position
\* computes
ScanMatchesFindPosition ==
    (walk # NoWalk /\ walk.pc = "return")
    => walk.pos = find_position(table, size, walk.key, walk.for_insert)

-----------------------------------------------------------------------------
(* C22: in every state reachable by add and delete, for every live key k   *)
(* stored at slot p = (hash1(k) + i*hash2(k)) mod N with the least such i, *)
(* none of the slots (hash1(k) + j*hash2(k)) mod N for j < i is Empty;     *)
(* hence a lookup scan for a live key never stops at an Empty slot before  *)
(* reaching it.                                                            *)
ProbeAt(k, n, i) == ProbeIndex(Hash1Of[n][k], Hash2Of[n][k], n, i)

C22_ProbePathHasNoEmpty ==
    \A k \in ValidKeys : \A p \in SlotsOf(table, k) :
        /\ \E i \in 0..(size - 1) :
              /\ ProbeAt(k, size, i) = p
              /\ \A j \in 0..(i - 1) :
                    /\ ProbeAt(k, size, j) # p
                    /\ table[ProbeAt(k, size, j)].tag # "None"
        /\ find_position(table, size, k, FALSE) = p

\* a live key sits past its first probe position, which holds a deleted
\* slot, while some slot of the table is still Empty
C22_Witness ==
    \E k \in ValidKeys : \E p \in SlotsOf(table, k) :
        /\ p # ProbeAt(k, size, 0)
        /\ table[ProbeAt(k, size, 0)].tag = "deleted"
        /\ \E e \in 0..(size - 1) : table[e].tag = "None"

-----------------------------------------------------------------------------
(* C23: get, search_by_key, search_by_segment, view and get_statistics     *)
(* leave the slot array and count unchanged in every state; a successful   *)
(* add changes exactly one slot and a successful delete changes exactly    *)
(* one slot, and a failed add or delete changes none.                      *)
Readers == {"get", "search_by_key", "search_by_segment", "view", "get_statistics"}

\* the slots whose content differs before and after the step
ChangedSlots == {i \in 0..(size - 1) : table'[i] # table[i]}

FrameOfReaders ==
    last'.op \in Readers => table' = table /\ count' = count

FrameOfDelete ==
    last'.op = "delete"
    => IF last'.ok THEN Cardinality(ChangedSlots) = 1
       ELSE table' = table /\ count' = count

FrameOfFailedAdd ==
    (last'.op = "add" /\ ~last'.ok) => table' = table /\ count' = count

\* the statement as made: every successful add changes exactly one slot
C23_FrameExactlyOneSlot ==
    [][/\ FrameOfReaders /\ FrameOfDelete /\ FrameOfFailedAdd
       /\ (last'.op = "add" /\ last'.ok) => Cardinality(ChangedSlots) = 1
      ]_vars

\* C23, amended: a successful add changes exactly one slot, except that
\* an add of a key with the value it already holds changes none
C23_Frame ==
    [][/\ FrameOfReaders /\ FrameOfDelete /\ FrameOfFailedAdd
       /\ (last'.op = "add" /\ last'.ok)
          => IF \E p \in SlotsOf(table, last'.key) : table[p].val = last'.val
             THEN table' = table /\ count' = count
             ELSE Cardinality(ChangedSlots) = 1
      ]_vars

\* a successful add of "v2" into a table that holds another live key and a
\* deleted slot
C23_Witness ==
    /\ last.op = "add" /\ last.ok /\ last.val = "v2"
    /\ Found(table, size, last.key, "v2")
    /\ NumOccupied(table) >= 2
    /\ NumDeleted(table) >= 1

=============================================================================
